---------------------------- MODULE Spec2Model ----------------------------
(***************************************************************************)
(* AladdinNetwork (src/board/aladdinnet.py): the DNS-policy resolver.      *)
(*                                                                         *)
(*   resolve_ipv4      parses a DNS server string, queries it for the A    *)
(*                     records of a domain and caches the answer in the    *)
(*                     class-level dns_cache                               *)
(*   replace_pxydom_ip matches every proxy's server against                *)
(*                     dns.nameserver-policy and replaces it by the first  *)
(*                     resolved address                                    *)
(*   catch_all         (src/main.py) turns an APIErrorException into the   *)
(*                     HTTP status of the response                         *)
(*                                                                         *)
(* Python strings are modelled as sequences of one-character strings, so   *)
(* that strip, lower, startswith, split, urlparse and fnmatch are computed *)
(* character by character as the library computes them.                    *)
(***************************************************************************)
EXTENDS Integers, Sequences, FiniteSets, TLC

VARIABLES
    dns_cache,   \* AladdinNetwork.dns_cache: (dns_server, query_domain) -> ips
    rs,          \* per thread: the activation of resolve_ipv4, blocked in dns.query or idle
    calls,       \* observation: every resolve_ipv4 call, with the query it issued and its outcome
    pc,          \* replace_pxydom_ip: "idle", "loop" (at the head of the for loop), "wait" (inside resolve_ipv4)
    yaml_text,   \* the document handed to replace_pxydom_ip
    data,        \* yaml.safe_load(yaml_text), whose proxies are modified in place
    idx,         \* position of the for loop in data["proxies"], 1-based
    seen,        \* observation: per proxy visited by the loop, what the loop did with it
    resp,        \* the HTTP response catch_all gave for the last request
    env,         \* what the caller of resolve_ipv4 passes as dns_server in this run
    probe        \* a pattern and a hostname under test, with the glob and the verdict

vars == <<dns_cache, rs, calls, pc, yaml_text, data, idx, seen, resp, env, probe>>

-----------------------------------------------------------------------------
(* Bounds of the model *)

\* direct resolve_ipv4 calls in one process lifetime
MaxCalls == 3
\* proxies in one document
MaxProxies == 2

-----------------------------------------------------------------------------
(* Literal strings *)

h_node_example_com == <<"n", "o", "d", "e", ".", "e", "x", "a", "m", "p", "l", "e", ".", "c", "o", "m">>
h_a_example_com == <<"a", ".", "e", "x", "a", "m", "p", "l", "e", ".", "c", "o", "m">>
h_notexample_com == <<"n", "o", "t", "e", "x", "a", "m", "p", "l", "e", ".", "c", "o", "m">>
h_other_net == <<"o", "t", "h", "e", "r", ".", "n", "e", "t">>
h_sub_a_com == <<"s", "u", "b", ".", "a", ".", "c", "o", "m">>
h_x_a_com == <<"x", ".", "a", ".", "c", "o", "m">>
h_x_y_a_com == <<"x", ".", "y", ".", "a", ".", "c", "o", "m">>
p_dot_example_com == <<".", "e", "x", "a", "m", "p", "l", "e", ".", "c", "o", "m">>
p_plus_example_com == <<"+", ".", "e", "x", "a", "m", "p", "l", "e", ".", "c", "o", "m">>
p_star_example_com == <<"*", ".", "e", "x", "a", "m", "p", "l", "e", ".", "c", "o", "m">>
p_star_a_com == <<"*", ".", "a", ".", "c", "o", "m">>
p_sub_a_com == <<"s", "u", "b", ".", "a", ".", "c", "o", "m">>
p_other_net == <<"o", "t", "h", "e", "r", ".", "n", "e", "t">>
s_udp_local == <<"u", "d", "p", ":", "/", "/", "1", "2", "7", ".", "0", ".", "0", ".", "1", ":", "5", "3", "0", "0">>
s_bare == <<"8", ".", "8", ".", "8", ".", "8">>
s_bare_port == <<"8", ".", "8", ".", "8", ".", "8", ":", "5", "3", "5", "3">>
s_bare_badport == <<"8", ".", "8", ".", "8", ".", "8", ":", "x">>
s_bare_nohost == <<":", "5", "3">>
s_tls == <<"t", "l", "s", ":", "/", "/", "1", ".", "1", ".", "1", ".", "1">>
s_tls_upper == <<" ", "T", "L", "S", ":", "/", "/", "1", ".", "1", ".", "1", ".", "1", " ">>
s_tls_port == <<"t", "l", "s", ":", "/", "/", "1", ".", "1", ".", "1", ".", "1", ":", "8", "8", "5", "3">>
s_tcp == <<"t", "c", "p", ":", "/", "/", "1", ".", "1", ".", "1", ".", "1">>
s_quic == <<"q", "u", "i", "c", ":", "/", "/", "9", ".", "9", ".", "9", ".", "9">>
s_https == <<"h", "t", "t", "p", "s", ":", "/", "/", "d", "n", "s", ".", "g", "o", "o", "g", "l", "e", "/", "d", "n", "s", "-", "q", "u", "e", "r", "y">>
s_rcode == <<"r", "c", "o", "d", "e", ":", "/", "/", "x">>
s_system_url == <<"s", "y", "s", "t", "e", "m", ":", "/", "/", "x">>
s_system == <<"s", "y", "s", "t", "e", "m">>
s_system_upper == <<" ", "S", "Y", "S", "T", "E", "M", " ">>
s_dhcp == <<"d", "h", "c", "p", ":", "/", "/", "x">>
s_ftp == <<"f", "t", "p", ":", "/", "/", "h">>
s_udp_nohost == <<"u", "d", "p", ":", "/", "/">>
s_udp_badport == <<"u", "d", "p", ":", "/", "/", "h", ":", "x">>
ip_10_0_0_5 == <<"1", "0", ".", "0", ".", "0", ".", "5">>
ip_10_0_0_6 == <<"1", "0", ".", "0", ".", "0", ".", "6">>
lit_rcode == <<"r", "c", "o", "d", "e", ":", "/", "/">>
lit_system_url == <<"s", "y", "s", "t", "e", "m", ":", "/", "/">>
lit_system == <<"s", "y", "s", "t", "e", "m">>
lit_dhcp == <<"d", "h", "c", "p", ":", "/", "/">>
lit_sep == <<":", "/", "/">>
lit_slashes == <<"/", "/">>
lit_udp == <<"u", "d", "p">>
lit_tcp == <<"t", "c", "p">>
lit_tls == <<"t", "l", "s">>
lit_https == <<"h", "t", "t", "p", "s">>
lit_quic == <<"q", "u", "i", "c">>
UpperChars == <<"A", "B", "C", "D", "E", "F", "G", "H", "I", "J", "K", "L", "M", "N", "O", "P", "Q", "R", "S", "T", "U", "V", "W", "X", "Y", "Z">>
LowerChars == <<"a", "b", "c", "d", "e", "f", "g", "h", "i", "j", "k", "l", "m", "n", "o", "p", "q", "r", "s", "t", "u", "v", "w", "x", "y", "z">>
DigitChars == <<"0", "1", "2", "3", "4", "5", "6", "7", "8", "9">>
Whitespace == {" ", "\t", "\n", "\r"}

-----------------------------------------------------------------------------
(* str methods *)

Range(s) == {s[k] : k \in 1..Len(s)}

\* str.lower() of one character
LowerChar(c) ==
    IF \E k \in 1..26 : UpperChars[k] = c
    THEN LowerChars[CHOOSE k \in 1..26 : UpperChars[k] = c]
    ELSE c

\* str.lower()
Lower(s) == [k \in 1..Len(s) |-> LowerChar(s[k])]

\* the least and the greatest element of a non-empty set of positions
Least(ks) == CHOOSE a \in ks : \A b \in ks : a <= b
Greatest(ks) == CHOOSE a \in ks : \A b \in ks : a >= b

\* s[a:b] for the positions ks that are kept; "" when there is none
Between(s, ks) == IF ks = {} THEN <<>> ELSE SubSeq(s, Least(ks), Greatest(ks))

\* str.strip(): drop leading and trailing whitespace
Strip(s) == Between(s, {k \in 1..Len(s) : s[k] \notin Whitespace})

\* str.startswith(prefix)
StartsWith(s, prefix) ==
    Len(s) >= Len(prefix) /\ SubSeq(s, 1, Len(prefix)) = prefix

\* the positions where sub occurs in s
Occurrences(s, sub) ==
    {k \in 1..(Len(s) - Len(sub) + 1) : SubSeq(s, k, k + Len(sub) - 1) = sub}

LeastOr0(ks) == IF ks = {} THEN 0 ELSE Least(ks)

\* str.find(sub), 1-based; 0 when sub does not occur
Find(s, sub) == LeastOr0(Occurrences(s, sub))

\* sub in s
Contains(s, sub) == Occurrences(s, sub) # {}

\* the text after position k
After(s, k) == SubSeq(s, k + 1, Len(s))

\* the text before position k, all of it when k = 0
Before(s, k) == IF k = 0 THEN s ELSE SubSeq(s, 1, k - 1)

\* the text after position k, none when k = 0
Behind(s, k) == IF k = 0 THEN <<>> ELSE After(s, k)

\* str.partition(sep)[0] and str.partition(sep)[2]
PartitionHead(s, sep) == Before(s, Find(s, sep))
PartitionTail(s, sep) == Behind(s, Find(s, sep))

IsDigits(s) == s # <<>> /\ \A k \in 1..Len(s) : s[k] \in Range(DigitChars)

DigitVal(c) == (CHOOSE k \in 1..10 : DigitChars[k] = c) - 1

RECURSIVE DigitsVal(_)
DigitsVal(s) ==
    IF s = <<>> THEN 0
    ELSE 10 * DigitsVal(SubSeq(s, 1, Len(s) - 1)) + DigitVal(s[Len(s)])

HasSign(u) == u # <<>> /\ u[1] \in {"+", "-"}

Unsigned(u) == IF HasSign(u) THEN Tail(u) ELSE u

Signed(u, v) == IF u # <<>> /\ u[1] = "-" THEN 0 - v ELSE v

\* int(text) succeeds: surrounding whitespace and one sign are accepted
IntOk(text) == IsDigits(Unsigned(Strip(text)))

\* int(text)
IntVal(text) == Signed(Strip(text), DigitsVal(Unsigned(Strip(text))))

\* a port that is None
NonePort == -1

\* port or default: None and 0 are falsy
PyOr(port, default) == IF port = NonePort \/ port = 0 THEN default ELSE port

-----------------------------------------------------------------------------
(* urllib.parse.urlparse, for the strings of the model (no userinfo, no   *)
(* bracketed IPv6 host)                                                    *)

Letters == Range(LowerChars) \cup Range(UpperChars)

SchemeChars == Letters \cup Range(DigitChars) \cup {"+", "-", "."}

\* i when the text before position i is a valid scheme, else 0
SchemeAt(url, i) ==
    IF i > 1 /\ url[1] \in Letters /\ \A k \in 1..(i - 1) : url[k] \in SchemeChars
    THEN i ELSE 0

\* position of the ":" that ends the scheme, or 0
SchemeEnd(url) == SchemeAt(url, Find(url, <<":">>))

\* the scheme that ends at position i
SchemeText(url, i) == IF i = 0 THEN <<>> ELSE Lower(SubSeq(url, 1, i - 1))

\* parsed.scheme
UrlScheme(url) == SchemeText(url, SchemeEnd(url))

\* the text up to the first of the characters in stops
UpTo(body, stops) == Before(body, LeastOr0({k \in 1..Len(body) : body[k] \in stops}))

\* the netloc of what follows the scheme
NetlocOf(rest) ==
    IF StartsWith(rest, lit_slashes) THEN UpTo(After(rest, 2), {"/", "?", "#"}) ELSE <<>>

\* parsed.netloc
UrlNetloc(url) == NetlocOf(After(url, SchemeEnd(url)))

\* parsed.hostname; <<>> stands for None
UrlHostname(url) == Lower(PartitionHead(UrlNetloc(url), <<":">>))

\* the text of the port in the netloc; <<>> stands for None
UrlPortText(url) == PartitionTail(UrlNetloc(url), <<":">>)

\* int(port) in parsed.port
PortOf(port_text) == IF port_text = <<>> THEN NonePort ELSE DigitsVal(port_text)

\* parsed.port raises ValueError
PortRaises(port_text) ==
    port_text # <<>> /\ (~IsDigits(port_text) \/ PortOf(port_text) > 65535)

-----------------------------------------------------------------------------
(* resolve_ipv4: the server string *)

\* dns_server.strip().lower()
Normalize(dns_server) == Lower(Strip(dns_server))

NoSpec(err) == [err |-> err, proto |-> <<>>, host |-> <<>>, port |-> NonePort]

\* "host:port" without a protocol
BareWithPort(host, port_str) ==
    IF ~IntOk(port_str) THEN NoSpec("port")
    ELSE IF host = <<>> THEN NoSpec("host")
    ELSE [err |-> "none", proto |-> lit_udp, host |-> host, port |-> IntVal(port_str)]

\* "host" without a protocol
Bare(host) ==
    IF host = <<>> THEN NoSpec("host")
    ELSE [err |-> "none", proto |-> lit_udp, host |-> host, port |-> 53]

\* what urlparse found
FromUrl(scheme, hostname, port_text) ==
    IF PortRaises(port_text) THEN NoSpec("urlport")
    ELSE IF hostname = <<>> THEN NoSpec("host")
    ELSE [err |-> "none", proto |-> scheme, host |-> hostname, port |-> PyOr(PortOf(port_text), 53)]

\* the parse without the test dns_server == "system"
ParseSpec_nosystem(dns_server) ==
    IF StartsWith(dns_server, lit_rcode) THEN NoSpec("rcode")
    ELSE IF StartsWith(dns_server, lit_system_url) \/ StartsWith(dns_server, lit_dhcp) THEN NoSpec("system")
    ELSE IF ~Contains(dns_server, lit_sep) THEN
        IF Contains(dns_server, <<":">>)
        THEN BareWithPort(Strip(PartitionHead(dns_server, <<":">>)), PartitionTail(dns_server, <<":">>))
        ELSE Bare(dns_server)
    ELSE FromUrl(UrlScheme(dns_server), UrlHostname(dns_server), UrlPortText(dns_server))

\* proto, host and port of a normalized server string, or the ValueError raised
ParseSpec(dns_server) ==
    IF StartsWith(dns_server, lit_rcode) THEN NoSpec("rcode")
    ELSE IF StartsWith(dns_server, lit_system_url) \/ dns_server = lit_system
            \/ StartsWith(dns_server, lit_dhcp) THEN NoSpec("system")
    ELSE IF ~Contains(dns_server, lit_sep) THEN
        IF Contains(dns_server, <<":">>)
        THEN BareWithPort(Strip(PartitionHead(dns_server, <<":">>)), PartitionTail(dns_server, <<":">>))
        ELSE Bare(dns_server)
    ELSE FromUrl(UrlScheme(dns_server), UrlHostname(dns_server), UrlPortText(dns_server))

NoQuery == [transport |-> "none", host |-> <<>>, port |-> NonePort, url |-> <<>>, domain |-> <<>>]

\* the dns.query call chosen by proto, or NoQuery for an unknown protocol
Dispatch(proto, host, port, dns_server, query_domain) ==
    IF proto = lit_udp THEN
        [transport |-> "udp", host |-> host, port |-> port, url |-> <<>>, domain |-> query_domain]
    ELSE IF proto = lit_tcp THEN
        [transport |-> "tcp", host |-> host, port |-> port, url |-> <<>>, domain |-> query_domain]
    ELSE IF proto = lit_tls THEN
        [transport |-> "tls", host |-> host, port |-> PyOr(port, 853), url |-> <<>>, domain |-> query_domain]
    ELSE IF proto = lit_https THEN
        [transport |-> "https", host |-> <<>>, port |-> NonePort, url |-> dns_server, domain |-> query_domain]
    ELSE IF proto = lit_quic THEN
        [transport |-> "quic", host |-> host, port |-> port, url |-> <<>>, domain |-> query_domain]
    ELSE NoQuery

\* the addresses of the A records of response.answer, in order
RECURSIVE ExtractA(_)
ExtractA(answer) ==
    IF answer = <<>> THEN <<>>
    ELSE (IF Head(answer).rdtype = "A" THEN Head(answer).items ELSE <<>>) \o ExtractA(Tail(answer))

-----------------------------------------------------------------------------
(* replace_pxydom_ip: matching a hostname against nameserver-policy *)

\* the fnmatch pattern a Clash pattern is turned into
Translate(pattern) ==
    IF StartsWith(pattern, <<"+", ".">>) \/ StartsWith(pattern, <<".">>)
    THEN <<"*">> \o Tail(pattern)
    ELSE pattern

\* fnmatch.fnmatch(name, pat) on POSIX, for patterns without "["
RECURSIVE Fnmatch(_, _)
Fnmatch(name, pat) ==
    IF pat = <<>> THEN name = <<>>
    ELSE IF Head(pat) = "*" THEN
        \E k \in 0..Len(name) : Fnmatch(SubSeq(name, k + 1, Len(name)), Tail(pat))
    ELSE IF name = <<>> THEN FALSE
    ELSE (Head(pat) = "?" \/ Head(pat) = Head(name)) /\ Fnmatch(Tail(name), Tail(pat))

\* the for loop over ns_policy.items(), from entry k on
RECURSIVE MatchFrom(_, _, _)
MatchFrom(ns_policy, server_name, k) ==
    IF k > Len(ns_policy) THEN
        [found |-> FALSE, matched_dns |-> <<>>, evaluated |-> Len(ns_policy)]
    ELSE IF Fnmatch(server_name, Translate(ns_policy[k].pattern)) THEN
        [found |-> TRUE, matched_dns |-> ns_policy[k].dns_server, evaluated |-> k]
    ELSE MatchFrom(ns_policy, server_name, k + 1)

\* the policy loop without its break: the last matching pattern wins
RECURSIVE MatchLast(_, _, _, _)
MatchLast(ns_policy, server_name, k, m) ==
    IF k > Len(ns_policy) THEN m
    ELSE IF Fnmatch(server_name, Translate(ns_policy[k].pattern)) THEN
        MatchLast(ns_policy, server_name, k + 1,
                  [found |-> TRUE, matched_dns |-> ns_policy[k].dns_server, evaluated |-> Len(ns_policy)])
    ELSE MatchLast(ns_policy, server_name, k + 1, m)

MatchPolicy_nobreak(ns_policy, server_name) ==
    MatchLast(ns_policy, server_name, 1,
              [found |-> FALSE, matched_dns |-> <<>>, evaluated |-> Len(ns_policy)])

\* the policy loop of one proxy
MatchPolicy(ns_policy, server_name) == MatchFrom(ns_policy, server_name, 1)

-----------------------------------------------------------------------------
(* resolve_ipv4 *)

Threads == {1, 2}
\* the thread that serves the requests
Main == 1

Idle == [pc |-> "idle", key |-> <<>>, query |-> NoQuery, call |-> 0]

Raised(outcome, cache_key) ==
    [kind |-> "raise", outcome |-> outcome, key |-> cache_key, ips |-> <<>>, query |-> NoQuery]

\* the query goes out, unless the protocol is unknown
Send(cache_key, query) ==
    IF query = NoQuery THEN Raised("protocol", cache_key)
    ELSE [kind |-> "query", outcome |-> "pending", key |-> cache_key, ips |-> <<>>, query |-> query]

\* resolve_ipv4 after the cache missed
Miss(dns_server, query_domain, spec) ==
    IF spec.err # "none" THEN Raised(spec.err, <<dns_server, query_domain>>)
    ELSE Send(<<dns_server, query_domain>>,
              Dispatch(spec.proto, spec.host, spec.port, dns_server, query_domain))

\* resolve_ipv4 without the cache lookup
Lookup_nocache(cache, dns_server, query_domain) ==
    Miss(dns_server, query_domain, ParseSpec(dns_server))

\* resolve_ipv4 from the cache lookup on
Lookup(cache, dns_server, query_domain) ==
    IF <<dns_server, query_domain>> \in DOMAIN cache THEN
        [kind |-> "return", outcome |-> "hit", key |-> <<dns_server, query_domain>>,
         ips |-> cache[<<dns_server, query_domain>>], query |-> NoQuery]
    ELSE Miss(dns_server, query_domain, ParseSpec(dns_server))

\* resolve_ipv4 up to the dns.query call: what it returns or raises without
\* the network, or the query it sends
ResolveStart(cache, dns_server, query_domain) ==
    Lookup(cache, Normalize(dns_server), query_domain)

\* the end of resolve_ipv4 without the test for an empty list of addresses
Answered_empty(ips) == [kind |-> "return", outcome |-> "ok", ips |-> ips]

\* the end of resolve_ipv4, given the A records of the response
Answered(ips) ==
    IF ips = <<>> THEN [kind |-> "raise", outcome |-> "norecords", ips |-> <<>>]
    ELSE [kind |-> "return", outcome |-> "ok", ips |-> ips]

\* resolve_ipv4 from the return of dns.query on
ResolveFinish(response) ==
    IF response.error THEN [kind |-> "raise", outcome |-> "transport", ips |-> <<>>]
    ELSE Answered(ExtractA(response.answer))

\* self.dns_cache[cache_key] = ips
Store(cache, cache_key, ips) ==
    [k \in DOMAIN cache \cup {cache_key} |-> IF k = cache_key THEN ips ELSE cache[k]]

\* what a call adds to the observation of calls
CallRecord(t, dns_server, r) ==
    [thread |-> t, dns_server |-> dns_server, key |-> r.key, query |-> r.query,
     outcome |-> r.outcome, ips |-> r.ips]

\* the observation of a call once dns.query is back
Finished(call, f) == [call EXCEPT !.outcome = f.outcome, !.ips = f.ips]

\* what the network may answer to one query
Responses ==
    { [error |-> TRUE, answer |-> <<>>],
      [error |-> FALSE, answer |-> <<>>],
      [error |-> FALSE, answer |-> << [rdtype |-> "A", items |-> <<ip_10_0_0_5>>] >>],
      [error |-> FALSE, answer |-> << [rdtype |-> "CNAME", items |-> <<h_x_a_com>>],
                                      [rdtype |-> "A", items |-> <<ip_10_0_0_6, ip_10_0_0_5>>] >>] }

Servers ==
    { s_udp_local, s_bare, s_bare_port, s_bare_badport, s_bare_nohost, s_tls, s_tls_upper,
      s_tls_port, s_tcp, s_quic, s_https, s_rcode, s_system_url, s_system, s_system_upper,
      s_dhcp, s_ftp, s_udp_nohost, s_udp_badport }

QueryDomains == {h_node_example_com, h_sub_a_com}

-----------------------------------------------------------------------------
(* The documents *)

\* dns.nameserver-policy: the items of the mapping, in order
Policy(items) == [k \in 1..Len(items) |-> [pattern |-> items[k][1], dns_server |-> items[k][2]]]

Policies ==
    { Policy(<< <<p_dot_example_com, s_udp_local>> >>),
      Policy(<< <<p_star_a_com, s_bare>>, <<p_sub_a_com, s_tls>> >>),
      Policy(<< <<p_plus_example_com, s_tls_upper>>, <<p_other_net, s_rcode>> >>),
      Policy(<< <<p_sub_a_com, s_system_upper>>, <<p_star_example_com, s_bare_port>>,
                <<p_other_net, s_dhcp>> >>),
      Policy(<< <<p_star_a_com, <<>> >>, <<p_sub_a_com, s_bare>>, <<p_other_net, s_system_url>> >>),
      Policy(<< <<p_other_net, s_ftp>>, <<p_dot_example_com, s_udp_local>> >>),
      Policy(<< >>) }

\* one entry of proxies: the server field (when present) and the other fields
ProxyEntries ==
    { [name |-> "node",  has_server |-> TRUE,  server |-> h_node_example_com],
      [name |-> "sub",   has_server |-> TRUE,  server |-> h_sub_a_com],
      [name |-> "other", has_server |-> TRUE,  server |-> h_other_net],
      [name |-> "plain", has_server |-> FALSE, server |-> <<>>] }

ProxyLists == UNION {[1..n -> ProxyEntries] : n \in 0..MaxProxies}

\* what yaml.safe_load makes of the text: whether it loads, which keys are
\* there, and what they hold
Documents ==
    [loads : {TRUE}, has_dns : {TRUE}, has_policy : {TRUE}, has_proxies : {TRUE},
     policy : Policies, proxies : ProxyLists]
    \cup
    { d \in [loads : BOOLEAN, has_dns : BOOLEAN, has_policy : BOOLEAN, has_proxies : BOOLEAN,
             policy : {Policy(<< <<p_dot_example_com, s_udp_local>> >>)},
             proxies : {p \in ProxyLists : Len(p) = 1}] :
        /\ ~(d.loads /\ d.has_dns /\ d.has_policy /\ d.has_proxies)
        /\ (~d.loads => ~d.has_dns /\ ~d.has_proxies)
        /\ (~d.has_dns => ~d.has_policy) }

NoDocument ==
    [loads |-> FALSE, has_dns |-> FALSE, has_policy |-> FALSE, has_proxies |-> FALSE,
     policy |-> <<>>, proxies |-> <<>>]

-----------------------------------------------------------------------------
(* replace_pxydom_ip and catch_all *)

ParseFailed    == "Failed to parse YAML subscribe content."
PolicyMissing  == "dns.nameserver-policy is missing in YAML configuration."
ProxiesMissing == "proxies list is missing or invalid in YAML configuration"
ReplaceFailed  == "Failed to replace the domain with an IP address"

\* the checks before the loop without the one on proxies
Validate_noproxies(d) ==
    IF ~d.loads THEN ParseFailed
    ELSE IF ~d.has_dns \/ ~d.has_policy THEN PolicyMissing
    ELSE ""

\* the details of the APIErrorException raised before the loop, or "" for none
Validate(d) ==
    IF ~d.loads THEN ParseFailed
    ELSE IF ~d.has_dns \/ ~d.has_policy THEN PolicyMissing
    ELSE IF ~d.has_proxies THEN ProxiesMissing
    ELSE ""

\* the code of the APIErrorException raised with these details
ErrorCode(details) ==
    IF details = ParseFailed THEN 500
    ELSE IF details = PolicyMissing THEN 500
    ELSE IF details = ProxiesMissing THEN 500
    ELSE 500

NoResponse == [status |-> 0, details |-> "", cause |-> "", body |-> NoDocument]

\* catch_all: jsonify(e.to_dict()), e.code
catch_all(details, cause) ==
    [status |-> ErrorCode(details), details |-> details, cause |-> cause, body |-> NoDocument]

\* handle: flask_make_response(sub_content, 200)
handle(document) == [status |-> 200, details |-> "", cause |-> "", body |-> document]

\* proxy.get("server"); <<>> stands for None as for ""
ServerName(proxy) == IF proxy.has_server THEN proxy.server ELSE <<>>

\* proxy["server"] = ips[0]
SetServer(document, i, ip) ==
    [document EXCEPT !.proxies[i] = [@ EXCEPT !.has_server = TRUE, !.server = ip]]

\* what the loop did with proxy i: how many patterns it tried, what it found,
\* and which call of resolve_ipv4 it made (0 for none)
Visit(i, it, call) ==
    [i |-> i, server_name |-> it.server_name, evaluated |-> it.m.evaluated, found |-> it.m.found,
     matched_dns |-> it.m.matched_dns, did |-> it.did, call |-> IF it.did = "resolve" THEN call ELSE 0]

NotEvaluated == [found |-> FALSE, matched_dns |-> <<>>, evaluated |-> 0]

NoResolve == [kind |-> "none", outcome |-> "none", key |-> <<>>, ips |-> <<>>, query |-> NoQuery]

\* the loop body without the test "if not matched_dns: continue"
Matched_always(cache, server_name, m) ==
    [did |-> "resolve", server_name |-> server_name, m |-> m,
     r |-> ResolveStart(cache, m.matched_dns, server_name)]

\* the loop body once the policy loop is over
Matched(cache, server_name, m) ==
    IF ~m.found \/ m.matched_dns = <<>> THEN
        [did |-> "nomatch", server_name |-> server_name, m |-> m, r |-> NoResolve]
    ELSE
        [did |-> "resolve", server_name |-> server_name, m |-> m,
         r |-> ResolveStart(cache, m.matched_dns, server_name)]

\* the loop body for one server_name
Inspect(cache, ns_policy, server_name) ==
    IF server_name = <<>> THEN
        [did |-> "noserver", server_name |-> server_name, m |-> NotEvaluated, r |-> NoResolve]
    ELSE Matched(cache, server_name, MatchPolicy(ns_policy, server_name))

\* one pass of the for loop over data["proxies"], up to the dns.query call
Iteration(cache, document, i) ==
    Inspect(cache, document.policy, ServerName(document.proxies[i]))

\* the loop body taking the last address instead of the first
Replace_last(document, i, ips) ==
    IF ips = <<>> THEN document ELSE SetServer(document, i, ips[Len(ips)])

\* the loop body after resolve_ipv4 returned ips
Replace(document, i, ips) == IF ips = <<>> THEN document ELSE SetServer(document, i, ips[1])

Waiting(r, call) == [pc |-> "wait", key |-> r.key, query |-> r.query, call |-> call]

-----------------------------------------------------------------------------
(* Actions *)

\* catch_all -> handle -> construct_subscribe -> replace_pxydom_ip, up to the loop
HandleRequest(d) ==
    /\ pc = "idle"
    /\ rs[Main].pc = "idle"
    /\ yaml_text' = d
    /\ calls' = <<>>
    /\ seen' = <<>>
    /\ idx' = 1
    /\ IF Validate(d) # ""
       THEN /\ resp' = catch_all(Validate(d), "")
            /\ data' = NoDocument
            /\ pc' = "done"
       ELSE /\ resp' = NoResponse
            /\ data' = d
            /\ pc' = "loop"
    /\ UNCHANGED <<dns_cache, rs, env, probe>>

\* one proxy of the loop, up to the return of resolve_ipv4 or to its dns.query call
ProcessProxy ==
    /\ pc = "loop"
    /\ idx <= Len(data.proxies)
    /\ \E it \in {Iteration(dns_cache, data, idx)} :
           /\ seen' = Append(seen, Visit(idx, it, Len(calls) + 1))
           /\ IF it.did # "resolve" THEN
                  /\ idx' = idx + 1
                  /\ UNCHANGED <<data, calls, rs, pc, resp>>
              ELSE
                  /\ calls' = Append(calls, CallRecord(Main, it.m.matched_dns, it.r))
                  /\ CASE it.r.kind = "return" ->
                            /\ data' = Replace(data, idx, it.r.ips)
                            /\ idx' = idx + 1
                            /\ UNCHANGED <<rs, pc, resp>>
                       [] it.r.kind = "raise" ->
                            /\ resp' = catch_all(ReplaceFailed, it.r.outcome)
                            /\ pc' = "done"
                            /\ UNCHANGED <<data, idx, rs>>
                       [] it.r.kind = "query" ->
                            /\ rs' = [rs EXCEPT ![Main] = Waiting(it.r, Len(calls) + 1)]
                            /\ pc' = "wait"
                            /\ UNCHANGED <<data, idx, resp>>
    /\ UNCHANGED <<dns_cache, yaml_text, env, probe>>

\* the loop going on to the next proxy when resolve_ipv4 raises
ReceiveAnswer_continue(response) ==
    /\ pc = "wait"
    /\ rs[Main].pc = "wait"
    /\ \E f \in {ResolveFinish(response)} :
           /\ calls' = [calls EXCEPT ![rs[Main].call] = Finished(@, f)]
           /\ rs' = [rs EXCEPT ![Main] = Idle]
           /\ dns_cache' = IF f.kind = "raise" THEN dns_cache ELSE Store(dns_cache, rs[Main].key, f.ips)
           /\ data' = Replace(data, idx, f.ips)
           /\ idx' = idx + 1
           /\ pc' = "loop"
           /\ UNCHANGED resp
    /\ UNCHANGED <<yaml_text, seen, env, probe>>

\* dns.query returns or raises inside the loop: the rest of resolve_ipv4 and
\* of the loop body
ReceiveAnswer(response) ==
    /\ pc = "wait"
    /\ rs[Main].pc = "wait"
    /\ \E f \in {ResolveFinish(response)} :
           /\ calls' = [calls EXCEPT ![rs[Main].call] = Finished(@, f)]
           /\ rs' = [rs EXCEPT ![Main] = Idle]
           /\ IF f.kind = "raise" THEN
                  /\ resp' = catch_all(ReplaceFailed, f.outcome)
                  /\ pc' = "done"
                  /\ UNCHANGED <<dns_cache, data, idx>>
              ELSE
                  /\ dns_cache' = Store(dns_cache, rs[Main].key, f.ips)
                  /\ data' = Replace(data, idx, f.ips)
                  /\ idx' = idx + 1
                  /\ pc' = "loop"
                  /\ UNCHANGED resp
    /\ UNCHANGED <<yaml_text, seen, env, probe>>

\* the loop is over: return data, which construct_subscribe dumps and handle sends
ReturnData ==
    /\ pc = "loop"
    /\ idx > Len(data.proxies)
    /\ resp' = handle(data)
    /\ pc' = "done"
    /\ UNCHANGED <<dns_cache, rs, calls, yaml_text, data, idx, seen, env, probe>>

\* catch_all has returned the response: the locals of the request are gone,
\* dns_cache stays
EndRequest ==
    /\ pc = "done"
    /\ pc' = "idle"
    /\ yaml_text' = NoDocument
    /\ data' = NoDocument
    /\ idx' = 1
    /\ seen' = <<>>
    /\ calls' = <<>>
    /\ resp' = NoResponse
    /\ UNCHANGED <<dns_cache, rs, env, probe>>

\* a direct call of resolve_ipv4(env.dns_server, query_domain) by thread t
ResolveCall(t, query_domain) ==
    /\ pc = "idle"
    /\ rs[t].pc = "idle"
    /\ Len(calls) < MaxCalls
    /\ \E r \in {ResolveStart(dns_cache, env.dns_server, query_domain)} :
           /\ calls' = Append(calls, CallRecord(t, env.dns_server, r))
           /\ rs' = IF r.kind = "query" THEN [rs EXCEPT ![t] = Waiting(r, Len(calls) + 1)] ELSE rs
    /\ UNCHANGED <<dns_cache, pc, yaml_text, data, idx, seen, resp, env, probe>>

\* dns.query returns or raises in a direct call: the rest of resolve_ipv4
ResolveReturn(t, response) ==
    /\ pc = "idle"
    /\ rs[t].pc = "wait"
    /\ \E f \in {ResolveFinish(response)} :
           /\ calls' = [calls EXCEPT ![rs[t].call] = Finished(@, f)]
           /\ dns_cache' = IF f.kind = "return" THEN Store(dns_cache, rs[t].key, f.ips) ELSE dns_cache
    /\ rs' = [rs EXCEPT ![t] = Idle]
    /\ UNCHANGED <<pc, yaml_text, data, idx, seen, resp, env, probe>>

\* the pattern of the probe is translated
TranslateStep ==
    /\ probe.stage = "input"
    /\ probe' = [probe EXCEPT !.stage = "translated", !.match_pattern = Translate(probe.pattern)]
    /\ UNCHANGED <<dns_cache, rs, calls, pc, yaml_text, data, idx, seen, resp, env>>

\* the hostname of the probe is matched against the translated pattern
MatchStep ==
    /\ probe.stage = "translated"
    /\ probe' = [probe EXCEPT !.stage = "matched",
                              !.matched = Fnmatch(probe.server_name, probe.match_pattern)]
    /\ UNCHANGED <<dns_cache, rs, calls, pc, yaml_text, data, idx, seen, resp, env>>

-----------------------------------------------------------------------------
(* Specifications *)

EmptyCache == [k \in {} |-> <<>>]
NoEnv == [dns_server |-> <<>>]
NoProbe == [stage |-> "none", pattern |-> <<>>, server_name |-> <<>>, match_pattern |-> <<>>, matched |-> FALSE]

Patterns ==
    { p_dot_example_com, p_plus_example_com, p_star_example_com, p_star_a_com, p_sub_a_com,
      p_other_net, <<"?", ".", "a", ".", "c", "o", "m">> }

Hostnames ==
    { h_node_example_com, h_a_example_com, h_notexample_com, h_other_net, h_sub_a_com,
      h_x_a_com, h_x_y_a_com, <<"e", "x", "a", "m", "p", "l", "e", ".", "c", "o", "m">> }

Quiet ==
    /\ dns_cache = EmptyCache
    /\ rs = [t \in Threads |-> Idle]
    /\ calls = <<>>
    /\ pc = "idle"
    /\ yaml_text = NoDocument
    /\ data = NoDocument
    /\ idx = 1
    /\ seen = <<>>
    /\ resp = NoResponse

\* the process serves requests, one at a time
Init == Quiet /\ env = NoEnv /\ probe = NoProbe

Next ==
    \/ \E d \in Documents : HandleRequest(d)
    \/ ProcessProxy
    \/ \E response \in Responses : ReceiveAnswer(response)
    \/ ReturnData
    \/ EndRequest

Spec == Init /\ [][Next]_vars

\* resolve_ipv4 is called directly, one call after the other
InitResolve == Quiet /\ env \in [dns_server : Servers] /\ probe = NoProbe

NextResolve ==
    \/ \E query_domain \in QueryDomains : ResolveCall(Main, query_domain)
    \/ \E response \in Responses : ResolveReturn(Main, response)

SpecResolve == InitResolve /\ [][NextResolve]_vars

\* resolve_ipv4 is called directly by two threads of the server, their steps
\* interleaved at the dns.query call
InitRace == Quiet /\ env \in [dns_server : Servers] /\ probe = NoProbe

NextRace ==
    \/ \E t \in Threads, query_domain \in QueryDomains : ResolveCall(t, query_domain)
    \/ \E t \in Threads, response \in Responses : ResolveReturn(t, response)

SpecRace == InitRace /\ [][NextRace]_vars

\* one pattern and one hostname go through the translation and fnmatch
InitMatch ==
    /\ Quiet
    /\ env = NoEnv
    /\ probe \in [stage : {"input"}, pattern : Patterns, server_name : Hostnames,
                  match_pattern : {<<>>}, matched : {FALSE}]

NextMatch == TranslateStep \/ MatchStep

SpecMatch == InitMatch /\ [][NextMatch]_vars

-----------------------------------------------------------------------------
(* Properties of replace_pxydom_ip *)

Returned == {"hit", "ok"}

\* the positions of the policy whose translated pattern matches server_name
Hits(ns_policy, server_name) ==
    {k \in 1..Len(ns_policy) : Fnmatch(server_name, Translate(ns_policy[k].pattern))}

\* the visits of the request in progress that called resolve_ipv4 and got addresses
Resolved == {k \in 1..Len(seen) : seen[k].did = "resolve" /\ calls[seen[k].call].outcome \in Returned}

\* C1: a proxy whose server matched a pattern and whose resolution returned a
\* non-empty list has the first address of the list as its server; its other
\* fields, and the number and the order of the proxies, are those of the input;
\* the document returned is the document so modified.
C1_FirstAddressReplacesServer ==
    /\ \A k \in Resolved :
           /\ calls[seen[k].call].ips # <<>>
           /\ data.proxies[seen[k].i].has_server
           /\ data.proxies[seen[k].i].server = calls[seen[k].call].ips[1]
           /\ data.proxies[seen[k].i].name = yaml_text.proxies[seen[k].i].name
    /\ pc \in {"loop", "wait"} \/ (pc = "done" /\ resp.status = 200) =>
           /\ Len(data.proxies) = Len(yaml_text.proxies)
           /\ \A j \in 1..Len(data.proxies) : data.proxies[j].name = yaml_text.proxies[j].name
    /\ pc = "done" /\ resp.status = 200 => resp.body = data

\* node.example.com under {".example.com": "udp://127.0.0.1:5300"} came back as
\* 10.0.0.6, the first of the two addresses answered
C1_Witness ==
    /\ pc = "done"
    /\ resp.status = 200
    /\ yaml_text.policy = Policy(<< <<p_dot_example_com, s_udp_local>> >>)
    /\ Len(yaml_text.proxies) = 2
    /\ yaml_text.proxies[2].server = h_node_example_com
    /\ 2 \in {seen[k].i : k \in Resolved}
    /\ calls[Len(calls)].ips = <<ip_10_0_0_6, ip_10_0_0_5>>
    /\ resp.body.proxies[2].server = ip_10_0_0_6
    /\ resp.body.proxies[2].name = "node"
    /\ resp.body.proxies[1] = yaml_text.proxies[1]

\* C2: the loop over the policy stops at the first pattern, in the order of the
\* mapping, whose translated glob matches the hostname: it evaluates no pattern
\* after it, and the server of that pattern is the one resolve_ipv4 is called with.
C2_FirstMatchWins ==
    \A k \in 1..Len(seen) :
        seen[k].server_name # <<>> =>
            IF Hits(data.policy, seen[k].server_name) = {} THEN
                /\ ~seen[k].found
                /\ seen[k].evaluated = Len(data.policy)
                /\ seen[k].call = 0
            ELSE
                /\ seen[k].found
                /\ seen[k].evaluated = Least(Hits(data.policy, seen[k].server_name))
                /\ seen[k].matched_dns = data.policy[seen[k].evaluated].dns_server
                /\ seen[k].call # 0 => calls[seen[k].call].dns_server = seen[k].matched_dns

\* sub.a.com under ["*.a.com" -> 8.8.8.8, "sub.a.com" -> tls://1.1.1.1] is
\* resolved by 8.8.8.8, though the second pattern matches it too
C2_Witness ==
    /\ data.policy = Policy(<< <<p_star_a_com, s_bare>>, <<p_sub_a_com, s_tls>> >>)
    /\ \E k \in 1..Len(seen) :
           /\ seen[k].server_name = h_sub_a_com
           /\ Hits(data.policy, h_sub_a_com) = {1, 2}
           /\ seen[k].evaluated = 1
           /\ seen[k].call # 0
           /\ calls[seen[k].call].dns_server = s_bare
           /\ calls[seen[k].call].query.host = s_bare
\* C3: ".d" and "+.d" are both translated to "*.d", and so match the same
\* hostnames.
C3_DotAndPlusSameGlob ==
    probe.stage \in {"translated", "matched"} /\ StartsWith(probe.pattern, <<".">>) =>
        /\ probe.match_pattern = <<"*">> \o probe.pattern
        /\ probe.match_pattern = Translate(<<"+">> \o probe.pattern)
        /\ probe.stage = "matched" =>
               probe.matched = Fnmatch(probe.server_name, Translate(<<"+">> \o probe.pattern))

-----------------------------------------------------------------------------
(* Properties of resolve_ipv4 *)

SameKey == {p \in (1..Len(calls)) \X (1..Len(calls)) : p[1] < p[2] /\ calls[p[1]].key = calls[p[2]].key}

\* C4, as claimed: two calls with the same (server, domain) issue at most one
\* network query in total, and the second returns the list the first returned.
C4_AtMostOneQuery ==
    \A p \in SameKey :
        /\ ~(calls[p[1]].query # NoQuery /\ calls[p[2]].query # NoQuery)
        /\ calls[p[2]].outcome # "pending" => calls[p[2]].ips = calls[p[1]].ips

\* C4, amended: once a call has returned an address list, every later call
\* with the same (normalized server, domain) issues no network query and returns
\* that same list (so the two issue at most one query in total).
C4_CachedAfterSuccess ==
    \A p \in SameKey :
        calls[p[1]].outcome \in Returned =>
            /\ calls[p[2]].query = NoQuery
            /\ calls[p[2]].outcome = "hit"
            /\ calls[p[2]].ips = calls[p[1]].ips
            /\ calls[p[2]].ips # <<>>

\* " TLS://1.1.1.1 " answered two addresses to the first call; the second call
\* for the same domain is served from the cache under the normalized key
C4_Witness ==
    /\ env.dns_server = s_tls_upper
    /\ Len(calls) >= 2
    /\ calls[1].outcome = "ok"
    /\ calls[1].query # NoQuery
    /\ calls[1].key = <<s_tls, h_node_example_com>>
    /\ calls[2].key = calls[1].key
    /\ calls[2].outcome = "hit"
    /\ calls[2].query = NoQuery
    /\ calls[2].ips = <<ip_10_0_0_6, ip_10_0_0_5>>

\* the server strings that stand for "do not resolve"
Unresolvable(dns_server) ==
    \/ StartsWith(dns_server, lit_rcode)
    \/ StartsWith(dns_server, lit_system_url)
    \/ StartsWith(dns_server, lit_dhcp)
    \/ dns_server = lit_system

\* C5: whatever the cache holds, a call whose server string, trimmed and
\* lower-cased, starts with rcode://, system:// or dhcp:// or is "system" raises
\* the corresponding ValueError, sends no query and caches nothing; the request
\* it belongs to ends with an error.
C5_UnresolvableNeverQueried ==
    \A k \in 1..Len(calls) :
        Unresolvable(Normalize(calls[k].dns_server)) =>
            /\ calls[k].outcome =
                   (IF StartsWith(Normalize(calls[k].dns_server), lit_rcode) THEN "rcode" ELSE "system")
            /\ calls[k].query = NoQuery
            /\ calls[k].key \notin DOMAIN dns_cache
            /\ k = Len(calls)
            /\ pc = "done"
            /\ resp.status # 200

\* " SYSTEM " is refused while the cache holds entries of earlier requests
C5_Witness ==
    /\ dns_cache # EmptyCache
    /\ Len(calls) = 1
    /\ calls[1].dns_server = s_system_upper
    /\ calls[1].outcome = "system"
    /\ calls[1].query = NoQuery
    /\ rs[Main].pc = "idle"

\* C6: without a port in the server string the query goes to port 53 for udp,
\* tcp, quic and a bare host, and to port 853 for tls; a port that is given is
\* the port used.
C6_DefaultPorts ==
    \A k \in 1..Len(calls) :
        calls[k].query # NoQuery =>
            /\ ~Contains(Normalize(calls[k].dns_server), lit_sep) =>
                   calls[k].query.port =
                       (IF Contains(Normalize(calls[k].dns_server), <<":">>)
                        THEN IntVal(PartitionTail(Normalize(calls[k].dns_server), <<":">>))
                        ELSE 53)
            /\ Contains(Normalize(calls[k].dns_server), lit_sep)
                   /\ calls[k].query.transport \in {"udp", "tcp", "quic"} =>
                   calls[k].query.port =
                       (IF UrlPortText(Normalize(calls[k].dns_server)) = <<>> THEN 53
                        ELSE DigitsVal(UrlPortText(Normalize(calls[k].dns_server))))
            /\ calls[k].query.transport = "tls" =>
                   calls[k].query.port =
                       (IF UrlPortText(Normalize(calls[k].dns_server)) = <<>> THEN 853
                        ELSE DigitsVal(UrlPortText(Normalize(calls[k].dns_server))))

-----------------------------------------------------------------------------
(* Properties of replace_pxydom_ip: errors *)

\* the ValueErrors of an invalid server string, and the transport error
SpecOrTransport == {"rcode", "system", "port", "urlport", "host", "transport"}

\* C7: when the resolution for the proxy at position idx fails on the server
\* string or on the transport, the request ends there with an error and without a
\* document: that call is the last call, the proxy is the last one visited, and the
\* proxies after it are as they came in.
C7_FailureAbortsTheRest ==
    \A k \in 1..Len(calls) :
        calls[k].outcome \in SpecOrTransport =>
            /\ pc = "done"
            /\ resp.status # 200
            /\ resp.details = ReplaceFailed
            /\ resp.body = NoDocument
            /\ k = Len(calls)
            /\ Len(seen) = idx
            /\ seen[idx].call = k
            /\ \A j \in (idx + 1)..Len(data.proxies) : data.proxies[j] = yaml_text.proxies[j]

\* the first of two proxies that both match the policy timed out: the second
\* was never looked at
C7_Witness ==
    /\ pc = "done"
    /\ Len(yaml_text.proxies) = 2
    /\ idx = 1
    /\ Len(calls) = 1
    /\ calls[1].outcome = "transport"
    /\ Hits(yaml_text.policy, ServerName(yaml_text.proxies[2])) # {}
    /\ Len(seen) = 1
    /\ resp.status # 200

\* C8: a proxy without a server, or whose server matches no pattern, stays as it
\* came in and causes no call of resolve_ipv4 (every call belongs to a proxy that
\* matched); the loop goes on with the next proxy, and ends without error when
\* there is none.
C8_UnmatchedPassesThrough ==
    /\ \A k \in 1..Len(seen) :
           seen[k].server_name = <<>> \/ Hits(data.policy, seen[k].server_name) = {} =>
               /\ seen[k].did \in {"noserver", "nomatch"}
               /\ seen[k].call = 0
               /\ data.proxies[seen[k].i] = yaml_text.proxies[seen[k].i]
               /\ k = Len(seen) =>
                      /\ pc \in {"loop", "done"}
                      /\ idx = seen[k].i + 1
                      /\ rs[Main].pc = "idle"
                      /\ pc = "done" => resp.status = 200 /\ resp.body = data
    /\ Len(calls) = Cardinality({k \in 1..Len(seen) : seen[k].call # 0})
    /\ \A k \in 1..Len(seen) : seen[k].call # 0 => Hits(data.policy, seen[k].server_name) # {}

\* other.net and a proxy without server under {".example.com": ...}: both are
\* returned as they came in, and resolve_ipv4 was never called
C8_Witness ==
    /\ pc = "done"
    /\ resp.status = 200
    /\ yaml_text.policy = Policy(<< <<p_dot_example_com, s_udp_local>> >>)
    /\ Len(yaml_text.proxies) = 2
    /\ yaml_text.proxies[1].server = h_other_net
    /\ ~yaml_text.proxies[2].has_server
    /\ Len(seen) = 2
    /\ calls = <<>>
    /\ resp.body.proxies = yaml_text.proxies

\* the document loads but lacks dns.nameserver-policy or the proxies list
Lacking(d) == d.loads /\ (~d.has_dns \/ ~d.has_policy \/ ~d.has_proxies)

\* C9: a document without dns.nameserver-policy or without a proxies list is
\* refused before the loop: the request ends with an error, no proxy was visited,
\* resolve_ipv4 was not called, nothing waits on the network, and the step that
\* refuses the document leaves the cache as it was.
C9_MissingKeysFailFirst ==
    /\ [](Lacking(yaml_text) =>
              /\ pc = "done"
              /\ resp.status # 200
              /\ resp.details \in {PolicyMissing, ProxiesMissing}
              /\ resp.body = NoDocument
              /\ data = NoDocument
              /\ seen = <<>>
              /\ calls = <<>>
              /\ rs[Main].pc = "idle")
    /\ [][Lacking(yaml_text') => dns_cache' = dns_cache]_vars

\* a document without nameserver-policy is refused while the cache holds the
\* entries of earlier requests
C9_Witness ==
    /\ Lacking(yaml_text)
    /\ yaml_text.has_dns
    /\ ~yaml_text.has_policy
    /\ yaml_text.proxies # <<>>
    /\ pc = "done"
    /\ dns_cache # EmptyCache

Validation == {ParseFailed, PolicyMissing, ProxiesMissing}
Resolution == {"transport", "norecords", "protocol"}
ClientInputClass == 400..499
UpstreamDependencyClass == {502, 503, 504}

\* C10: a validation failure is answered with a status of the client-input
\* class, a resolution failure with one of the upstream-dependency class.
C10_StatusTellsTheKind ==
    /\ resp.details \in Validation => resp.status \in ClientInputClass
    /\ resp.details = ReplaceFailed /\ resp.cause \in Resolution =>
           resp.status \in UpstreamDependencyClass

-----------------------------------------------------------------------------
(* Properties of replace_pxydom_ip: an answer without A records *)

\* C11: when the query of a matched proxy comes back without error and without
\* any A record, no error is raised: the request does not end with an error
\* response, the proxy stays as it came in, and the loop has gone on to the next
\* proxy.
C11_EmptyAnswerPassesThrough ==
    \A k \in 1..Len(calls) :
        calls[k].outcome = "norecords" =>
            /\ ~(pc = "done" /\ resp.status # 200)
            /\ \E j \in 1..Len(seen) :
                   /\ seen[j].call = k
                   /\ data.proxies[seen[j].i] = yaml_text.proxies[seen[j].i]
                   /\ idx > seen[j].i

-----------------------------------------------------------------------------
(* Properties of dns_cache *)

\* C12: an entry of the cache is written once: no step removes a key of the
\* cache or stores another value under it, also when two calls for the same key
\* are both between the cache lookup and the cache write.
C12_WriteOncePerKey ==
    [][\A k \in DOMAIN dns_cache : k \in DOMAIN dns_cache' /\ dns_cache'[k] = dns_cache[k]]_vars

-----------------------------------------------------------------------------
(* Properties of the pattern translation: "*" *)

\* C13: a pattern that starts with "*" is used as it is, and its "*" stands
\* for exactly one label: a hostname it matches is one non-empty label without a
\* dot followed by the rest of the pattern, so "*.a.com" matches x.a.com and
\* does not match x.y.a.com.
C13_StarMatchesOneLabel ==
    probe.stage = "matched" /\ StartsWith(probe.pattern, <<"*">>) =>
        /\ probe.match_pattern = probe.pattern
        /\ probe.matched =>
               /\ Len(probe.server_name) >= Len(probe.pattern)
               /\ ~Contains(SubSeq(probe.server_name, 1,
                                   Len(probe.server_name) - Len(Tail(probe.pattern))), <<".">>)

-----------------------------------------------------------------------------
(* Properties of dns_cache: what it holds *)

\* the ways a call of resolve_ipv4 fails
Failures == {"rcode", "system", "port", "urlport", "host", "protocol", "transport", "norecords"}

\* the calls that end in a failure within the step
FailingNow ==
    {k \in 1..Len(calls') :
        /\ calls'[k].outcome \in Failures
        /\ k > Len(calls) \/ calls[k].outcome = "pending"}

Transports == {lit_udp, lit_tcp, lit_tls, lit_https, lit_quic}

\* C14: a call that ends in a failure, whichever it is, leaves the cache as it
\* was; hence every entry of the cache holds a non-empty list of addresses, under
\* a key whose server string parses to a non-empty host and to one of the
\* transports udp, tcp, tls, https, quic.
C14_FailuresCacheNothing ==
    /\ [][FailingNow # {} => dns_cache' = dns_cache]_vars
    /\ [](\A k \in DOMAIN dns_cache :
              /\ dns_cache[k] # <<>>
              /\ k[1] = Normalize(k[1])
              /\ ParseSpec(k[1]).err = "none"
              /\ ParseSpec(k[1]).host # <<>>
              /\ ParseSpec(k[1]).proto \in Transports)

\* with "tls://1.1.1.1:8853" the call for one domain succeeded and is cached;
\* the call for the other domain got an answer without A records, and the
\* cache still holds the first entry alone
C14_Witness ==
    /\ env.dns_server = s_tls_port
    /\ Len(calls) = 2
    /\ calls[1].outcome = "ok"
    /\ calls[2].outcome = "norecords"
    /\ calls[2].query # NoQuery
    /\ DOMAIN dns_cache = {calls[1].key}
    /\ calls[2].key # calls[1].key

=============================================================================
